---- MODULE Spec2Model ----
(***************************************************************************)
(* git-sync: the `setup` command (run_setup) and the `timer` command       *)
(* (run_timer: startup fetch + merge, then the watch loop that calls       *)
(* update() once per filesystem event).                                    *)
(*                                                                         *)
(* The repository is modelled by its references, its object store (the     *)
(* commits, each with parents, tree and message), its index and its        *)
(* working tree.  A tree, the index and the working tree map every path to *)
(* a content, 0 standing for "no such file".  The git2 calls are modelled  *)
(* at the places the source makes them; `.unwrap()` on an Err and          *)
(* `panic!` / `unimplemented!()` end the process (pc = "dead").            *)
(***************************************************************************)
EXTENDS Integers, Sequences, FiniteSets, TLC

\* ------------------------------------------------------------------ bounds
\* The user's file changes (writes, deletions) in one behaviour.
MaxEdits == 2
\* Events the channel holds; a send to a full channel is coalesced.
MaxQueue == 2
\* The user's git commands (git add, git switch --orphan) in one behaviour.
MaxGitOps == 1

\* ------------------------------------------------------------- the universe
PathSeq == <<"a.txt", "b.txt">>
PathSet == {PathSeq[i] : i \in DOMAIN PathSeq}
Contents == {1, 2}
Branches == {"master", "dev"}

Tree(a, b) == [p \in PathSet |-> IF p = "a.txt" THEN a ELSE b]
EmptyTree == [p \in PathSet |-> 0]

HistoryMsg == [verb |-> "history", path |-> ""]

\* The commits that exist before the program runs: a root, one local
\* successor and two remote successors of the root (3 merges with 2 without
\* conflict, 4 conflicts with 2 on a.txt).
InitOdb ==
  << [parents |-> << >>,  tree |-> Tree(1, 1), msg |-> HistoryMsg],
     [parents |-> <<1>>,  tree |-> Tree(2, 1), msg |-> HistoryMsg],
     [parents |-> <<1>>,  tree |-> Tree(1, 2), msg |-> HistoryMsg],
     [parents |-> <<1>>,  tree |-> Tree(0, 1), msg |-> HistoryMsg] >>
RemoteTips == {1, 3, 4}
RefScenarios ==
  { [b \in Branches |-> 0],
    [b \in Branches |-> IF b = "master" THEN 1 ELSE 0],
    [b \in Branches |-> IF b = "master" THEN 2 ELSE 0],
    [b \in Branches |-> IF b = "master" THEN 2 ELSE 1],
    [b \in Branches |-> IF b = "master" THEN 0 ELSE 1] }
MaxCommits == Len(InitOdb) + MaxEdits + 1

\* The command line: the subcommand, --remote, --branch, and the remotes the
\* repository's configuration lists (in the order repo.remotes() gives them).
Configs ==
  { [cmd |-> "setup", remote |-> "origin", branch |-> "master",
     remotes |-> <<"origin">>] }
  \cup
  { [cmd |-> "timer", remote |-> "origin", branch |-> b, remotes |-> rs] :
      b \in Branches, rs \in {<<"origin">>, <<"backup", "origin">>} }

VARIABLES
  cfg,        \* the command line and the configured remotes
  pc,         \* where the process is
  panic,      \* why the process died ("none" while it lives)
  wt,         \* working tree: path -> content
  index,      \* staging index: path -> content
  odb,        \* commits, by id
  refs,       \* refs/heads/<branch> -> commit id (0: no such reference)
  head,       \* the branch HEAD points to
  remoteTip,  \* the tip of cfg.branch on cfg.remote
  fetchHead,  \* FETCH_HEAD (0: none)
  chan,       \* the event channel: "none", "open", "closed"
  pending,    \* events waiting in the channel
  recvErr,    \* rx.recv() has returned Err
  batch,      \* the status entries update() still has to handle
  msg,        \* update()'s msg
  cyc,        \* what the current call of update() has done so far
  lastPush,   \* the last push made
  edits,      \* the user's file changes so far
  burst,      \* the files changed since the last quiet interval
  late,       \* the files changed while update() ran, not yet rescanned
  gitops      \* the user's git commands so far

vars == <<cfg, pc, panic, wt, index, odb, refs, head, remoteTip, fetchHead,
          chan, pending, recvErr, batch, msg, cyc, lastPush, edits, burst,
          late, gitops>>

\* ------------------------------------------------------------- the backend
HeadTip == refs[head]
TreeOf(c) == IF c = 0 THEN EmptyTree ELSE odb[c].tree
HeadTree == TreeOf(HeadTip)

RECURSIVE Ancestors(_)
\* The commit c and every commit reachable from it through parents.
Ancestors(c) ==
  IF c = 0 THEN {}
  ELSE {c} \cup UNION {Ancestors(odb[c].parents[i]) : i \in DOMAIN odb[c].parents}

Min(a, b) == IF a < b THEN a ELSE b

\* repo.statuses(None): the flags of one path, from HEAD's tree, the index
\* and the working tree.
StatusOf(p) ==
  LET h == HeadTree[p]
      i == index[p]
      w == wt[p]
  IN  (IF h = 0 /\ i # 0 THEN {"INDEX_NEW"} ELSE {})
      \cup (IF h # 0 /\ i = 0 THEN {"INDEX_DELETED"} ELSE {})
      \cup (IF h # 0 /\ i # 0 /\ h # i THEN {"INDEX_MODIFIED"} ELSE {})
      \cup (IF i = 0 /\ w # 0 THEN {"WT_NEW"} ELSE {})
      \cup (IF i # 0 /\ w = 0 THEN {"WT_DELETED"} ELSE {})
      \cup (IF i # 0 /\ w # 0 /\ i # w THEN {"WT_MODIFIED"} ELSE {})

\* The status list, ordered by path: one entry per path with a flag.
Statuses ==
  LET E(k) == [path |-> PathSeq[k], status |-> StatusOf(PathSeq[k])]
      F[k \in 0..Len(PathSeq)] ==
        IF k = 0 THEN << >>
        ELSE IF StatusOf(PathSeq[k]) = {} THEN F[k - 1]
        ELSE Append(F[k - 1], E(k))
  IN  F[Len(PathSeq)]

\* A write of the process or of the user under the watched directory: the
\* watcher sends an event while it lives.
Notify == pending' = IF chan = "open" THEN Min(pending + 1, MaxQueue) ELSE pending

Die(why) == pc' = "dead" /\ panic' = why

\* Nothing done yet: the scan's result, fetch and merge analysis made, what
\* merge() logged, the paths staged, commit created, push attempted.
NoCycle == [scan |-> "none", fetched |-> FALSE, analyzed |-> FALSE,
            merged |-> "none", staged |-> {}, committed |-> FALSE,
            pushed |-> FALSE]

\* ---------------------------------------------------------------- Init
Init ==
  /\ cfg \in Configs
  /\ pc = IF cfg.cmd = "setup" THEN "setup" ELSE "boot"
  /\ panic = "none"
  /\ refs \in RefScenarios
  /\ head \in Branches
  /\ odb = InitOdb
  /\ index = HeadTree
  /\ wt = HeadTree
  /\ remoteTip \in (IF cfg.cmd = "setup" THEN {1} ELSE RemoteTips)
  /\ fetchHead = 0
  /\ chan = "none"
  /\ pending = 0
  /\ recvErr = FALSE
  /\ batch = << >>
  /\ msg = HistoryMsg
  /\ cyc = NoCycle
  /\ lastPush = [made |-> FALSE, remote |-> "", src |-> "", dst |-> ""]
  /\ edits = 0
  /\ gitops = 0
  /\ late = {}
  /\ burst = {}


\* ------------------------------------------------------------- the user
\* The watcher thread sees the raw event of a changed file: the file belongs
\* to the current burst, and the change is a late one when the main thread is
\* inside update().
InCycle == pc \in {"rescan", "stage", "push"}

Touch(p) ==
  /\ burst' = IF chan = "open" THEN burst \cup {p} ELSE burst
  /\ late' = IF chan = "open" /\ InCycle THEN late \cup {p} ELSE late

\* Somebody writes a file of the working directory.
UserWrite(p, c) ==
  /\ pc \notin {"dead", "exit"}
  /\ edits < MaxEdits
  /\ wt[p] # c
  /\ wt' = [wt EXCEPT ![p] = c]
  /\ edits' = edits + 1
  /\ Notify
  /\ Touch(p)
  /\ UNCHANGED <<cfg, gitops, pc, panic, index, odb, refs, head, remoteTip,
                 fetchHead, chan, recvErr, batch, msg, cyc, lastPush>>

\* Somebody deletes a file of the working directory.
UserDelete(p) ==
  /\ pc \notin {"dead", "exit"}
  /\ edits < MaxEdits
  /\ wt[p] # 0
  /\ wt' = [wt EXCEPT ![p] = 0]
  /\ edits' = edits + 1
  /\ Notify
  /\ Touch(p)
  /\ UNCHANGED <<cfg, gitops, pc, panic, index, odb, refs, head, remoteTip,
                 fetchHead, chan, recvErr, batch, msg, cyc, lastPush>>

\* Somebody stages a path by hand (git add / git rm --cached): .git/index
\* is rewritten, which the recursive watcher sees as well.
UserStage(p) ==
  /\ pc \notin {"dead", "exit"}
  /\ gitops < MaxGitOps
  /\ index[p] # wt[p]
  /\ index' = [index EXCEPT ![p] = wt[p]]
  /\ gitops' = gitops + 1
  /\ Notify
  /\ UNCHANGED <<cfg, edits, late, burst, pc, panic, wt, odb, refs, head,
                 remoteTip, fetchHead, chan, recvErr, batch, msg, cyc,
                 lastPush>>

\* Somebody starts a new branch without history in the watched repository
\* (git switch --orphan b, on a clean tree): HEAD names a branch that has no
\* commit, the index is emptied and the tracked files are removed.
UserSwitchOrphan(b) ==
  /\ chan = "open"
  /\ pc # "dead"
  /\ gitops < MaxGitOps
  /\ refs[b] = 0 /\ b # head
  /\ \A p \in PathSet : index[p] = HeadTree[p] /\ (index[p] # 0 => wt[p] = index[p])
  /\ head' = b
  /\ index' = EmptyTree
  /\ wt' = [p \in PathSet |-> IF index[p] # 0 THEN 0 ELSE wt[p]]
  /\ gitops' = gitops + 1
  /\ Notify
  /\ burst' = burst \cup {p \in PathSet : index[p] # 0}
  /\ late' = IF InCycle THEN late \cup {p \in PathSet : index[p] # 0} ELSE late
  /\ UNCHANGED <<cfg, edits, pc, panic, odb, refs, remoteTip, fetchHead, chan,
                 recvErr, batch, msg, cyc, lastPush>>

\* The watcher's quiet interval (10 ms) passes without a raw event.
QuietPeriod ==
  /\ burst # {}
  /\ burst' = {}
  /\ UNCHANGED <<cfg, gitops, late, pc, panic, wt, index, odb, refs, head,
                 remoteTip, fetchHead, chan, pending, recvErr, batch, msg, cyc,
                 lastPush, edits>>

\* The notification source ends: the sending side of the channel is gone.
WatcherTerminates ==
  /\ chan = "open"
  /\ pc # "dead"
  /\ chan' = "closed"
  /\ UNCHANGED <<cfg, gitops, late, burst, pc, panic, wt, index, odb, refs,
                 head, remoteTip, fetchHead, pending, recvErr, batch, msg, cyc,
                 lastPush, edits>>

\* ------------------------------------------------------------- commits
InitialMsg == [verb |-> "Initial commit", path |-> ""]
EmptyCommitMsg == [verb |-> "Empty commit", path |-> ""]

\* repo.commit(Some("HEAD"), .., tree, parents): the backend refuses a
\* commit whose first parent is not the current tip of HEAD's branch; else
\* the commit is stored and the branch moves to it.
RepoCommit(m, tree, parents, next) ==
  IF HeadTip # 0 /\ (parents = << >> \/ parents[1] # HeadTip)
  THEN Die("commit_rejected") /\ UNCHANGED <<odb, refs>>
  ELSE /\ odb' = Append(odb, [parents |-> parents, tree |-> tree, msg |-> m])
       /\ refs' = [refs EXCEPT ![head] = Len(odb) + 1]
       /\ pc' = next
       /\ panic' = panic

\* create_commit(repo, msg, initial): the index becomes the tree; no parent
\* when initial, else repo.head().unwrap() is the parent.
create_commit(m, initial, next) ==
  IF initial
  THEN RepoCommit(m, index, << >>, next)
  ELSE IF HeadTip = 0
       THEN Die("head_unborn") /\ UNCHANGED <<odb, refs>>
       ELSE RepoCommit(m, index, <<HeadTip>>, next)

\* create_initial_commit calling create_commit with initial = false.
create_initial_commit_not_initial(next) == create_commit(InitialMsg, FALSE, next)

create_initial_commit(next) == create_commit(InitialMsg, TRUE, next)

\* ------------------------------------------------------------- setup
\* run_setup: the repository is opened (or initialised: no commit, empty
\* index), the identity is written to the configuration, and the initial
\* commit is made; main() unwraps the result.
run_setup ==
  /\ pc = "setup"
  /\ Len(odb) < MaxCommits
  /\ create_initial_commit("exit")
  /\ UNCHANGED <<cfg, gitops, late, burst, wt, index, head, remoteTip,
                 fetchHead, chan, pending, recvErr, batch, msg, cyc, lastPush,
                 edits>>


\* ------------------------------------------------------ startup of timer
\* repo_information.fetch().unwrap(): FETCH_HEAD becomes the remote tip, or
\* the transport or the credentials fail.
fetch ==
  /\ pc = "boot"
  /\ \E ok \in BOOLEAN :
       IF ok
       THEN /\ fetchHead' = remoteTip
            /\ cyc' = [cyc EXCEPT !.fetched = TRUE]
            /\ pc' = "merge"
            /\ panic' = panic
       ELSE /\ Die("fetch_failed")
            /\ UNCHANGED <<fetchHead, cyc>>
  /\ UNCHANGED <<cfg, gitops, late, burst, wt, index, odb, refs, head,
                 remoteTip, chan, pending, recvErr, batch, msg, lastPush,
                 edits>>

\* git_repo.merge_analysis(&[&remote]) against HEAD.
MergeAnalysis(local, remote) ==
  IF local = 0 THEN {"unborn", "fastforward"}
  ELSE IF remote \in Ancestors(local) THEN {"up_to_date"}
  ELSE IF local \in Ancestors(remote) THEN {"fastforward", "normal"}
  ELSE {"normal"}

\* checkout_head with force: every path of the target tree is written, a
\* path the index tracks and the target lacks is removed, an untracked file
\* the target does not name is left alone; the index becomes the target.
CheckoutForce(target) ==
  /\ wt' = [p \in PathSet |->
              IF target[p] # 0 THEN target[p]
              ELSE IF index[p] # 0 THEN 0
              ELSE wt[p]]
  /\ index' = target

\* do_fast_forward without repo.set_head: HEAD stays where it was and is
\* what gets checked out.
do_fast_forward_no_set_head(commit) ==
  IF refs[cfg.branch] = 0
  THEN /\ Die("ref_not_found")
       /\ UNCHANGED <<refs, head, wt, index, chan>>
  ELSE /\ refs' = [refs EXCEPT ![cfg.branch] = commit]
       /\ head' = head
       /\ CheckoutForce(IF head = cfg.branch THEN TreeOf(commit) ELSE HeadTree)
       /\ pc' = "idle"
       /\ panic' = panic
       /\ chan' = "open"

\* do_fast_forward: needs refs/heads/<branch>; moves it to the fetched
\* commit, points HEAD at it and checks HEAD out with force.
do_fast_forward(commit) ==
  IF refs[cfg.branch] = 0
  THEN /\ Die("ref_not_found")
       /\ UNCHANGED <<refs, head, wt, index, chan>>
  ELSE /\ refs' = [refs EXCEPT ![cfg.branch] = commit]
       /\ head' = cfg.branch
       /\ CheckoutForce(TreeOf(commit))
       /\ pc' = "idle"
       /\ panic' = panic
       /\ chan' = "open"

\* git_repo.merge_base(local, remote): the common ancestor every other
\* common ancestor is an ancestor of (0: unrelated histories).
MergeBase(local, remote) ==
  LET common == Ancestors(local) \cap Ancestors(remote)
      best == {c \in common : \A d \in common : d \in Ancestors(c)}
  IN  IF best = {} THEN 0 ELSE CHOOSE c \in best : TRUE

\* git_repo.merge_trees(ancestor, ours, theirs): per path, the side that
\* changed wins; -1 marks a path both sides changed differently.
MergeTrees(ancestor, ours, theirs) ==
  [p \in PathSet |->
     IF ours[p] = theirs[p] THEN ours[p]
     ELSE IF ours[p] = ancestor[p] THEN theirs[p]
     ELSE IF theirs[p] = ancestor[p] THEN ours[p]
     ELSE -1]

\* idx.has_conflicts()
HasConflicts(idx) == \E p \in PathSet : idx[p] = -1

\* do_normal_merge: unimplemented!() is its first statement.
do_normal_merge(local, remote) ==
  /\ Die("unimplemented")
  /\ UNCHANGED <<refs, head, wt, index, chan>>

\* The branch merge() takes, as its info! line names it.
MergeLog(analysis) ==
  IF "fastforward" \in analysis THEN "fastforward"
  ELSE IF "normal" \in analysis THEN "normal"
  ELSE "nothing"

\* repo_information.merge(commit).unwrap(), then the watcher is created.
merge ==
  /\ pc = "merge"
  /\ LET analysis == MergeAnalysis(HeadTip, fetchHead)
     IN  /\ cyc' = [cyc EXCEPT !.analyzed = TRUE,
                               !.merged = MergeLog(analysis)]
         /\ IF "fastforward" \in analysis
            THEN do_fast_forward(fetchHead)
            ELSE IF "normal" \in analysis
            THEN do_normal_merge(fetchHead, HeadTip)
            ELSE /\ pc' = "idle"
                 /\ panic' = panic
                 /\ chan' = "open"
                 /\ UNCHANGED <<refs, head, wt, index>>
  /\ UNCHANGED <<cfg, gitops, late, burst, odb, remoteTip, fetchHead, pending,
                 recvErr, batch, msg, lastPush, edits>>

\* ------------------------------------------------------------ watch loop
\* update() called for an event while an earlier call has not returned.
recv_update_any_time ==
  /\ pending > 0
  /\ pending' = pending - 1
  /\ IF Statuses = << >>
     THEN /\ pc' = "idle"
          /\ cyc' = [NoCycle EXCEPT !.scan = "empty"]
     ELSE /\ pc' = "rescan"
          /\ cyc' = [NoCycle EXCEPT !.scan = "dirty"]
  /\ UNCHANGED <<cfg, gitops, late, burst, panic, wt, index, odb, refs, head,
                 remoteTip, fetchHead, chan, recvErr, batch, msg, lastPush,
                 edits>>

\* update() without its early return on an empty status list.
recv_update_no_early_return ==
  /\ pc = "idle"
  /\ pending > 0
  /\ pending' = pending - 1
  /\ pc' = "rescan"
  /\ cyc' = [NoCycle EXCEPT !.scan = IF Statuses = << >> THEN "empty" ELSE "dirty"]
  /\ UNCHANGED <<cfg, gitops, late, burst, panic, wt, index, odb, refs, head,
                 remoteTip, fetchHead, chan, recvErr, batch, msg, lastPush,
                 edits>>

\* rx.recv() gives an event and update() starts: it returns at once when
\* repo.statuses() is empty.
recv_update ==
  /\ pc = "idle"
  /\ pending > 0
  /\ pending' = pending - 1
  /\ IF Statuses = << >>
     THEN /\ pc' = "idle"
          /\ cyc' = [NoCycle EXCEPT !.scan = "empty"]
     ELSE /\ pc' = "rescan"
          /\ cyc' = [NoCycle EXCEPT !.scan = "dirty"]
  /\ UNCHANGED <<cfg, gitops, late, burst, panic, wt, index, odb, refs, head,
                 remoteTip, fetchHead, chan, recvErr, batch, msg, lastPush,
                 edits>>

\* rx.recv() on a closed, drained channel: the error is printed and the
\* loop goes on.
recv_err ==
  /\ pc = "idle"
  /\ pending = 0
  /\ chan = "closed"
  /\ recvErr' = TRUE
  /\ pc' = "idle"
  /\ UNCHANGED <<cfg, gitops, late, burst, panic, wt, index, odb, refs, head,
                 remoteTip, fetchHead, chan, pending, batch, msg, cyc,
                 lastPush, edits>>

\* update(): msg = "Empty commit" and the second repo.statuses() call, whose
\* entries the loop walks.
rescan ==
  /\ pc = "rescan"
  /\ batch' = Statuses
  /\ msg' = EmptyCommitMsg
  /\ pc' = "stage"
  /\ late' = {}
  /\ UNCHANGED <<cfg, gitops, burst, panic, wt, index, odb, refs, head,
                 remoteTip, fetchHead, chan, pending, recvErr, cyc, lastPush,
                 edits>>

\* adding_file: index.add_path reads the file as it is now.
adding_file(s) ==
  IF wt[s.path] = 0
  THEN /\ Die("add_failed")
       /\ UNCHANGED <<index, msg, batch, cyc, pending>>
  ELSE /\ index' = [index EXCEPT ![s.path] = wt[s.path]]
       /\ msg' = [verb |-> "Add changes from", path |-> s.path]
       /\ batch' = Tail(batch)
       /\ cyc' = [cyc EXCEPT !.staged = @ \cup {s.path}]
       /\ Notify
       /\ UNCHANGED <<pc, panic>>

\* remove_file with an index.remove_path that reports a path the index lacks
\* as an error.
remove_file_absent_fails(s) ==
  IF index[s.path] = 0
  THEN /\ Die("remove_failed")
       /\ UNCHANGED <<index, msg, batch, cyc, pending>>
  ELSE /\ index' = [index EXCEPT ![s.path] = 0]
       /\ msg' = [verb |-> "Remove", path |-> s.path]
       /\ batch' = Tail(batch)
       /\ cyc' = [cyc EXCEPT !.staged = @ \cup {s.path}]
       /\ Notify
       /\ UNCHANGED <<pc, panic>>

\* remove_file: index.remove_path, which accepts a path the index lacks.
remove_file(s) ==
  /\ index' = [index EXCEPT ![s.path] = 0]
  /\ msg' = [verb |-> "Remove", path |-> s.path]
  /\ batch' = Tail(batch)
  /\ cyc' = [cyc EXCEPT !.staged = @ \cup {s.path}]
  /\ Notify
  /\ UNCHANGED <<pc, panic>>

\* One turn of update()'s loop over the status entries.
stage_entry ==
  /\ pc = "stage"
  /\ batch # << >>
  /\ LET s == Head(batch)
     IN  IF s.status \in {{"WT_NEW"}, {"WT_MODIFIED"}} THEN adding_file(s)
         ELSE IF s.status = {"WT_DELETED"} THEN remove_file(s)
         ELSE /\ Die("unhandled_status")
              /\ UNCHANGED <<index, msg, batch, cyc, pending>>
  /\ UNCHANGED <<cfg, gitops, late, burst, wt, odb, refs, head, remoteTip,
                 fetchHead, chan, recvErr, lastPush, edits>>

\* update(): create_commit(&repo, msg, false) after the loop.
commit_step ==
  /\ pc = "stage"
  /\ batch = << >>
  /\ Len(odb) < MaxCommits
  /\ create_commit(msg, FALSE, "push")
  /\ cyc' = [cyc EXCEPT !.committed = (HeadTip # 0)]
  /\ pending' = IF HeadTip # 0 /\ chan = "open"
                THEN Min(pending + 1, MaxQueue) ELSE pending
  /\ UNCHANGED <<cfg, gitops, late, burst, wt, index, head, remoteTip,
                 fetchHead, chan, recvErr, batch, msg, lastPush, edits>>

\* perform_push: the first configured remote, refs/heads/master to
\* refs/heads/master; .unwrap() on the result.  A push that succeeds updates
\* the remote-tracking reference under .git, which the watcher sees.
perform_push ==
  /\ pc = "push"
  /\ LET remote == cfg.remotes[1]
         tip == refs["master"]
         ours == remote = cfg.remote /\ cfg.branch = "master"
     IN  /\ lastPush' = [made |-> TRUE, remote |-> remote,
                         src |-> "master", dst |-> "master"]
         /\ cyc' = [cyc EXCEPT !.pushed = TRUE]
         /\ \E ok \in BOOLEAN :
              IF ok /\ tip # 0 /\ (ours => remoteTip \in Ancestors(tip))
              THEN /\ remoteTip' = IF ours THEN tip ELSE remoteTip
                   /\ pc' = "idle"
                   /\ panic' = panic
                   /\ Notify
              ELSE /\ Die("push_failed")
                   /\ UNCHANGED <<remoteTip, pending>>
  /\ UNCHANGED <<cfg, gitops, late, burst, wt, index, odb, refs, head,
                 fetchHead, chan, recvErr, batch, msg, edits>>

\* ------------------------------------------------------------------ Next
Next ==
  \/ \E p \in PathSet, c \in Contents : UserWrite(p, c)
  \/ \E p \in PathSet : UserDelete(p)
  \/ \E p \in PathSet : UserStage(p)
  \/ \E b \in Branches : UserSwitchOrphan(b)
  \/ QuietPeriod
  \/ WatcherTerminates
  \/ run_setup
  \/ fetch
  \/ merge
  \/ recv_update
  \/ recv_err
  \/ rescan
  \/ stage_entry
  \/ commit_step
  \/ perform_push

Spec == Init /\ [][Next]_vars

\* ------------------------------------------- the staging step on its own
\* The loop of update() (main.rs:174-180) run twice over one status list:
\* any working tree and index over any HEAD, the list being what
\* repo.statuses() gives for them, taken when every entry is one the loop
\* stages (WT_NEW, WT_MODIFIED, WT_DELETED).
FileStates == [PathSet -> {0} \cup Contents]

StageInit ==
  /\ cfg = [cmd |-> "timer", remote |-> "origin", branch |-> "master",
            remotes |-> <<"origin">>]
  /\ pc = "stage"
  /\ panic = "none"
  /\ refs \in RefScenarios
  /\ head \in Branches
  /\ odb = InitOdb
  /\ index \in FileStates
  /\ wt \in FileStates
  /\ \A i \in DOMAIN Statuses :
        Statuses[i].status \in {{"WT_NEW"}, {"WT_MODIFIED"}, {"WT_DELETED"}}
  /\ batch = Statuses \o Statuses
  /\ remoteTip = 1
  /\ fetchHead = 0
  /\ chan = "none"
  /\ pending = 0
  /\ recvErr = FALSE
  /\ msg = EmptyCommitMsg
  /\ cyc = NoCycle
  /\ lastPush = [made |-> FALSE, remote |-> "", src |-> "", dst |-> ""]
  /\ edits = 0
  /\ gitops = 0
  /\ late = {}
  /\ burst = {}

StageNext == stage_entry

StageSpec == StageInit /\ [][StageNext]_vars

TypeOK ==
  /\ cfg \in Configs
  /\ pc \in {"setup", "exit", "boot", "merge", "idle", "rescan", "stage",
             "push", "dead"}
  /\ panic \in {"none", "commit_rejected", "head_unborn", "fetch_failed",
                "ref_not_found", "unimplemented", "add_failed",
                "unhandled_status", "push_failed"}
  /\ (pc = "dead") = (panic # "none")
  /\ wt \in [PathSet -> {0} \cup Contents]
  /\ index \in [PathSet -> {0} \cup Contents]
  /\ Len(odb) <= MaxCommits
  /\ \A b \in Branches : refs[b] \in 0..Len(odb)
  /\ head \in Branches
  /\ remoteTip \in 1..Len(odb)
  /\ fetchHead \in 0..Len(odb)
  /\ chan \in {"none", "open", "closed"}
  /\ pending \in 0..MaxQueue
  /\ recvErr \in BOOLEAN
  /\ edits \in 0..MaxEdits
  /\ gitops \in 0..MaxGitOps
  /\ late \subseteq PathSet
  /\ burst \subseteq PathSet


\* =================================================================== claims
\* The statuses update()'s match has an arm for.
Handled == {{"WT_NEW"}, {"WT_MODIFIED"}, {"WT_DELETED"}}
\* The .unwrap() calls of a cycle on a backend result: remote.push,
\* index.add_path, repo.head().
BackendFailures == {"push_failed", "add_failed", "head_unborn"}
\* A commit message names a path: each message is one formatted line that
\* holds the one path it was formatted with.
Mentions(m, p) == m.path = p

\* C1: a call of update() that found changed paths and has created its
\* commit or attempted its push has fetched the remote tip and analysed the
\* merge before, in that same call.
FetchAndAnalyzeBeforeCommitAndPush ==
  (cyc.scan = "dirty" /\ (cyc.committed \/ cyc.pushed))
    => (cyc.fetched /\ cyc.analyzed)

\* C2: no backend, transport or credential failure inside a watch-loop
\* cycle (a failing push, a failing index.add_path, a failing repo.head())
\* ends the process: the daemon lives on.
CycleFailureIsNotFatal ==
  cfg.cmd = "timer" => panic \notin BackendFailures

\* C3: the turn of update()'s loop that meets a status other than WT_NEW,
\* WT_MODIFIED or WT_DELETED ends the cycle with the daemon alive and back
\* in idle, no commit created and no push made.
UnclassifiedStatusEndsCycleOnly ==
  [][ ( /\ pc = "stage"
        /\ batch # << >>
        /\ Head(batch).status \notin Handled
        /\ (pc' # pc \/ batch' # batch) )
      => ( /\ pc' = "idle"
           /\ panic' = "none"
           /\ odb' = odb
           /\ lastPush' = lastPush ) ]_vars

\* C4: the message of the commit a cycle has created names every path that
\* cycle staged.
CommitMessageNamesEveryStagedPath ==
  cyc.committed => \A p \in cyc.staged : Mentions(odb[Len(odb)].msg, p)

\* C5: the call of update() whose status scan is empty ends at once, back in
\* idle, with the object store, the references, HEAD, the index, the working
\* tree, FETCH_HEAD, the remote and the record of pushes as they were, and
\* with no fetch and no push made in it.
EmptyScanIsNoOp ==
  [][ (pending' < pending /\ Statuses = << >>)
      => ( /\ pc' = "idle"
           /\ UNCHANGED <<odb, refs, head, index, wt, fetchHead, remoteTip,
                          lastPush>>
           /\ ~cyc'.fetched /\ ~cyc'.pushed /\ ~cyc'.committed ) ]_vars

\* C5 witness: after a cycle that committed, a further event started a cycle
\* whose scan was empty, and the daemon is idle again.
EmptyScanCycleDone ==
  pc = "idle" /\ cyc.scan = "empty" /\ Len(odb) > Len(InitOdb)

\* C6: once rx.recv() has reported the closed channel, the daemon has left
\* its watch loop (it has exited, or died).
ClosedChannelShutsDown ==
  recvErr => pc \in {"exit", "dead"}

Diverged == MergeAnalysis(HeadTip, fetchHead) = {"normal"}
\* The three-way merge of HEAD's tree and the fetched tree on their base.
Merged ==
  MergeTrees(TreeOf(MergeBase(HeadTip, fetchHead)), HeadTree, TreeOf(fetchHead))

\* C8: merge() on a Diverged analysis whose three-way merge has no
\* conflicting path creates a commit with the two parents (local tip,
\* remote tip) and the merged tree, makes it HEAD's tip and checks it out.
DivergedCleanMergeCommits ==
  [][ (pc = "merge" /\ pc' # pc /\ Diverged /\ ~HasConflicts(Merged))
      => ( /\ Len(odb') = Len(odb) + 1
           /\ HeadTip' = Len(odb')
           /\ odb'[HeadTip'].parents = <<HeadTip, fetchHead>>
           /\ odb'[HeadTip'].tree = Merged
           /\ wt' = Merged ) ]_vars

\* C9: merge() on a Diverged analysis whose three-way merge has a
\* conflicting path halts the cycle and nothing more: the daemon lives on,
\* no commit is created and nothing is pushed.
DivergedConflictHalts ==
  [][ (pc = "merge" /\ pc' # pc /\ Diverged /\ HasConflicts(Merged))
      => ( /\ pc' # "dead"
           /\ panic' = "none"
           /\ odb' = odb
           /\ refs' = refs
           /\ lastPush' = lastPush ) ]_vars

\* C10: when merge() takes the fast-forward branch and succeeds, the
\* configured branch reference is the fetched commit, HEAD points to that
\* branch, the index is that commit's tree, and every file of the working
\* tree that is tracked (in that tree, or in the index before) is as in that
\* tree.  (Files the repository does not track and the tree does not name
\* are no part of the checkout and stay.)
FastForwardReachesRemoteTip ==
  [][ (pc = "merge" /\ pc' = "idle"
       /\ "fastforward" \in MergeAnalysis(HeadTip, fetchHead))
      => ( /\ refs'[cfg.branch] = fetchHead
           /\ head' = cfg.branch
           /\ HeadTip' = fetchHead
           /\ index' = TreeOf(fetchHead)
           /\ \A p \in PathSet :
                (TreeOf(fetchHead)[p] # 0 \/ index[p] # 0)
                  => wt'[p] = TreeOf(fetchHead)[p] ) ]_vars

\* C10 witness: the startup merge fast-forwarded over a user's change, HEAD's
\* tip is the fetched commit and the working tree is its tree.
FastForwarded ==
  /\ pc = "idle"
  /\ cyc.merged = "fastforward"
  /\ cyc.scan = "none"
  /\ edits > 0
  /\ HeadTip = fetchHead
  /\ wt = HeadTree

\* C11: every push the daemon has made went to the configured remote and
\* pushed the configured branch to the remote branch of the same name.
PushUsesConfiguredRemoteAndBranch ==
  lastPush.made => /\ lastPush.remote = cfg.remote
                   /\ lastPush.src = cfg.branch
                   /\ lastPush.dst = cfg.branch

\* C12: within one quiet interval the watcher has sent a trigger for at most
\* one changed file, so that a burst over two files starts one call of
\* update().  (The debounce is per path: every file of `burst` has had its
\* own event sent.)
OneTriggerPerQuietPeriod ==
  Cardinality(burst) <= 1

\* C13: a file the user changed while update() was running, and whose change
\* no commit holds yet, is not lost: the daemon is alive, and when it is back
\* in rx.recv() the trigger of the change is still in the channel, so that a
\* further call of update() scans and commits it.
ChangeDuringCycleIsNotLost ==
  \A p \in late :
    (chan = "open" /\ StatusOf(p) # {})
      => /\ pc # "dead"
         /\ (pc = "idle" => pending > 0)

\* C14: one call of update() at a time: an event is taken from the channel
\* only when no call of update() is running and the batch of the last one is
\* used up; and a step in which the watcher reports a user's file change
\* moves neither the main thread nor the index, commits, references, pushes,
\* batch or message.
OneCycleAtATime ==
  [][ /\ (pending' < pending => (pc = "idle" /\ batch = << >>))
      /\ (edits' # edits =>
            UNCHANGED <<pc, panic, index, odb, refs, head, lastPush, batch,
                        msg, cyc>>) ]_vars

\* A trigger waits in the channel while update() is blocked in its push.
TriggerWaitsDuringPush ==
  pc = "push" /\ pending > 0 /\ late # {}

\* C15: the step of update() that commits creates a commit, whose parents
\* are none when HEAD's branch has no commit and else exactly the commit
\* HEAD pointed to.
CycleCommitParents ==
  [][ (pc = "stage" /\ batch = << >> /\ pc' # pc)
      => /\ pc' = "push"
         /\ Len(odb') = Len(odb) + 1
         /\ odb'[Len(odb')].parents
              = (IF HeadTip = 0 THEN << >> ELSE <<HeadTip>>) ]_vars

\* C16: merge() puts the local tip and the fetched tip into one of four
\* cases and takes that case's branch: no local tip (Unborn) - nothing is
\* merged, no branch reference moves and merge() returns without error; equal
\* tips (UpToDate) - nothing is done; the fetched tip descends from the local
\* one - the fast-forward branch; neither is an ancestor of the other - the
\* normal-merge branch.
MergeClassifiesFourCases ==
  [][ (pc = "merge" /\ pc' # pc)
      => /\ (HeadTip = 0
               => /\ cyc'.merged = "nothing"
                  /\ pc' = "idle"
                  /\ refs' = refs)
         /\ (HeadTip # 0 /\ HeadTip = fetchHead
               => /\ cyc'.merged = "nothing"
                  /\ pc' = "idle"
                  /\ UNCHANGED <<refs, head, wt, index>>)
         /\ (HeadTip # 0 /\ HeadTip # fetchHead /\ HeadTip \in Ancestors(fetchHead)
               => cyc'.merged = "fastforward")
         /\ (HeadTip # 0 /\ HeadTip \notin Ancestors(fetchHead)
                         /\ fetchHead \notin Ancestors(HeadTip)
               => cyc'.merged = "normal") ]_vars

\* C17: a call of update() that has staged some records of its batch and not
\* the rest is followed by a further call that stages the rest and commits:
\* the process holding such a partly applied batch has not stopped for good.
PartialBatchIsRecovered ==
  (cyc.staged # {} /\ batch # << >>) => pc # "dead"

\* C18: when the loop of update() handles a record of a path it has already
\* staged from the same status list (the second application of the batch),
\* the index stays as the first application left it and the step does not
\* fail.
StagingTwiceIsIdempotent ==
  [][ (pc = "stage" /\ batch # << >> /\ Head(batch).path \in cyc.staged)
      => (index' = index /\ pc' = "stage" /\ panic' = "none") ]_vars

\* C18 witness: a status list with an added and a removed path has been
\* applied twice.
BatchAppliedTwice ==
  /\ chan = "none"
  /\ pc = "stage"
  /\ batch = << >>
  /\ \E p, q \in cyc.staged : index[p] = 0 /\ index[q] # 0

\* C19: the startup merge keeps local work: a file of HEAD's tree whose
\* content in the working tree differs from HEAD's when merge() runs has that
\* content in the working tree afterwards, or in the tree of a commit that a
\* branch reaches.
StartupKeepsLocalWork ==
  [][ (pc = "merge" /\ pc' # pc)
      => \A p \in PathSet :
           (HeadTree[p] # 0 /\ wt[p] # 0 /\ wt[p] # HeadTree[p])
             => \/ wt'[p] = wt[p]
                \/ \E b \in Branches :
                     \E c \in Ancestors(refs'[b]) : odb[c].tree[p] = wt[p] ]_vars

\* C20: the daemon does not feed itself: the watch loop has created at most
\* one commit per change the user made, however many events its own writes
\* under the watched directory have put into the channel.
DaemonDoesNotFeedItself ==
  cfg.cmd = "timer" => Len(odb) - Len(InitOdb) <= edits + gitops

\* C20 witness: after one user change and one commit, the events of the
\* daemon's own writes have been taken, the last with an empty scan, and the
\* daemon rests in rx.recv() with an empty channel.
DaemonAtRestAfterOwnEvents ==
  /\ chan = "open"
  /\ pc = "idle"
  /\ pending = 0
  /\ cyc.scan = "empty"
  /\ edits + gitops = 1
  /\ Len(odb) = Len(InitOdb) + 1
  /\ lastPush.made

====
